---------------------------- MODULE Spec2Model ----------------------------
(***************************************************************************)
(* Model of the Mission Control task executor                              *)
(* (src/src/pocketclaw/mission_control/executor.py, class MCTaskExecutor). *)
(*                                                                         *)
(* Every call of execute_task / execute_task_background / stop_task is a   *)
(* coroutine of one asyncio event loop.  An action of the model is the     *)
(* code a coroutine runs between two awaits: asyncio never interleaves     *)
(* anything inside such a segment.  Text (error messages, chunk contents,  *)
(* identifiers) is a sequence of one-character strings.                    *)
(***************************************************************************)
EXTENDS Integers, Sequences, FiniteSets

None == "None"

\* "No coroutine": callers of execute_task are numbered 1, 2, ..., callers of
\* stop_task -1, -2, ...
Nil == 0

\* An optional text (Python: str | None) is a sequence of at most one text.
NoText == <<>>

Some(t) == <<t>>

-----------------------------------------------------------------------------
(* Text helpers: Python str operations used by the executor.               *)

\* White space of str.strip(), str.rstrip() and of the regex classes \s and \S
\* (str.isspace) among the ASCII characters: space, \t, \n, \r, \f, and the
\* control characters 11 (VT), 28 (FS), 29 (GS), 30 (RS) and 31 (US), which
\* have no escape and stand in the literals as themselves.  Text of the
\* model is ASCII.
WhiteSpace ==
    {" ", "\t", "\n", "\r", "\f", "", "", "", "", ""}

UpperCase == <<"A","B","C","D","E","F","G","H","I","J","K","L","M",
               "N","O","P","Q","R","S","T","U","V","W","X","Y","Z">>

LowerCase == <<"a","b","c","d","e","f","g","h","i","j","k","l","m",
               "n","o","p","q","r","s","t","u","v","w","x","y","z">>

\* str.lower() of one character (re.IGNORECASE compares case-insensitively).
Lower(c) ==
    IF \E i \in 1..26 : UpperCase[i] = c
    THEN LowerCase[CHOOSE i \in 1..26 : UpperCase[i] = c]
    ELSE c

HexDigits == {"0","1","2","3","4","5","6","7","8","9","a","b","c","d","e","f"}

\* error[:n]
Take(s, n) == IF Len(s) <= n THEN s ELSE SubSeq(s, 1, n)

\* str.rstrip(): the longest prefix that does not end in whitespace
RStrip(s) ==
    LET keep == {n \in 0..Len(s) : n = 0 \/ s[n] \notin WhiteSpace}
    IN  SubSeq(s, 1, CHOOSE n \in keep : \A m \in keep : m <= n)

\* bool(s.strip()): some character of s is not whitespace
StripNonEmpty(s) == \E i \in 1..Len(s) : s[i] \notin WhiteSpace

\* "".join(chunks)
RECURSIVE Join(_)
Join(chunks) ==
    IF chunks = <<>> THEN <<>> ELSE Head(chunks) \o Join(Tail(chunks))

\* Last index of the maximal run of non-whitespace characters that starts at
\* index i (i - 1 when s[i] is whitespace or i is past the end).
RunEnd(s, i) ==
    CHOOSE e \in (i - 1)..Len(s) :
        /\ \A k \in i..e : s[k] \notin WhiteSpace
        /\ e = Len(s) \/ s[e + 1] \in WhiteSpace

\* First index >= i holding a non-whitespace character (Len(s) + 1 if none).
SkipSpace(s, i) ==
    CHOOSE v \in i..(Len(s) + 1) :
        /\ \A k \in i..(v - 1) : s[k] \in WhiteSpace
        /\ v = Len(s) + 1 \/ s[v] \notin WhiteSpace

\* Least element of a non-empty set of integers
Least(S) == CHOOSE n \in S : \A m \in S : n <= m

-----------------------------------------------------------------------------
(* Security constants, executor.py lines 42-43.                            *)

MAX_CONCURRENT_TASKS == 5

MAX_ERROR_MESSAGE_LENGTH == 200

-----------------------------------------------------------------------------
(* _is_valid_uuid: UUID_PATTERN.match(value).  "$" also matches before a   *)
(* final newline.                                                          *)

UuidShape(s) ==
    /\ \A i \in 1..36 :
         IF i \in {9, 14, 19, 24} THEN s[i] = "-" ELSE Lower(s[i]) \in HexDigits

_is_valid_uuid(value) ==
    IF value = <<>> THEN FALSE
    ELSE \/ Len(value) = 36 /\ UuidShape(value)
         \/ Len(value) = 37 /\ UuidShape(value) /\ value[37] = "\n"

-----------------------------------------------------------------------------
(* _sanitize_error, executor.py lines 408-444.                             *)

PathToken == <<"[","p","a","t","h","]">>

RedactedToken == <<"=","[","r","e","d","a","c","t","e","d","]">>

Ellipsis == <<".",".",".">>

DefaultError ==
    <<"A","n"," ","e","r","r","o","r"," ","o","c","c","u","r","r","e","d">>

\* End of the match of r"/[^\s]+/[^\s]+" anchored at index i, 0 if none: the
\* pattern takes the whole run of non-whitespace after the "/", and needs a
\* second "/" inside it with a character on both sides.
PathMatchEnd(s, i) ==
    IF s[i] # "/" THEN 0
    ELSE LET e == RunEnd(s, i + 1)
         IN  IF \E j \in (i + 2)..(e - 1) : s[j] = "/" THEN e ELSE 0

\* re.sub(r"/[^\s]+/[^\s]+", "[path]", s): leftmost matches, left to right.
RECURSIVE SubPathsFrom(_, _)
SubPathsFrom(s, i) ==
    LET starts == {j \in i..Len(s) : PathMatchEnd(s, j) > 0}
    IN  IF starts = {} THEN SubSeq(s, i, Len(s))
        ELSE LET m == Least(starts)
             IN  SubSeq(s, i, m - 1) \o PathToken
                   \o SubPathsFrom(s, PathMatchEnd(s, m) + 1)

SubPaths(s) == SubPathsFrom(s, 1)

SecretWords == { <<"k","e","y">>, <<"t","o","k","e","n">>,
                 <<"s","e","c","r","e","t">>,
                 <<"p","a","s","s","w","o","r","d">> }

\* The keyword w stands at index i of s, case-insensitively.
WordAt(s, i, w) ==
    /\ i + Len(w) - 1 <= Len(s)
    /\ \A k \in 1..Len(w) : Lower(s[i + k - 1]) = w[k]

\* End of the match of r"(key|token|secret|password)[=:]\s*\S+" anchored at
\* index i with keyword w, 0 if none.
SecretMatchEndWith(s, i, w) ==
    IF ~WordAt(s, i, w) THEN 0
    ELSE LET sep == i + Len(w)
         IN  IF sep > Len(s) \/ s[sep] \notin {"=", ":"} THEN 0
             ELSE LET v == SkipSpace(s, sep + 1)
                  IN  IF v > Len(s) THEN 0 ELSE RunEnd(s, v)

\* The keyword of the match anchored at index i (the keywords start with
\* different letters, so at most one of the alternatives matches).
SecretWordAt(s, i) == CHOOSE w \in SecretWords : SecretMatchEndWith(s, i, w) > 0

SecretMatchEnd(s, i) ==
    IF \E w \in SecretWords : SecretMatchEndWith(s, i, w) > 0
    THEN SecretMatchEndWith(s, i, SecretWordAt(s, i))
    ELSE 0

\* re.sub(<the pattern>, r"\1=[redacted]", s, flags=re.IGNORECASE)
RECURSIVE SubSecretsFrom(_, _)
SubSecretsFrom(s, i) ==
    LET starts == {j \in i..Len(s) : SecretMatchEnd(s, j) > 0}
    IN  IF starts = {} THEN SubSeq(s, i, Len(s))
        ELSE LET m == Least(starts)
             IN  SubSeq(s, i, m - 1)
                   \o SubSeq(s, m, m + Len(SecretWordAt(s, m)) - 1)
                   \o RedactedToken
                   \o SubSecretsFrom(s, SecretMatchEnd(s, m) + 1)

SubSecrets(s) == SubSecretsFrom(s, 1)

_sanitize_error(error) ==
    IF error = <<>> THEN DefaultError
    ELSE LET sanitized == SubSecrets(SubPaths(Take(error, MAX_ERROR_MESSAGE_LENGTH)))
         IN  IF Len(error) > MAX_ERROR_MESSAGE_LENGTH
             THEN RStrip(sanitized) \o Ellipsis
             ELSE sanitized


-----------------------------------------------------------------------------
(* Bounds of the model.                                                    *)

\* Calls of stop_task
NumStops == 2

\* Awaits on the store, the bus or router.stop() that really suspend the
\* caller (the others complete without yielding to the event loop)
MaxYields == 1

\* Calls in the wide scenario: one more than MAX_CONCURRENT_TASKS
WideCalls == MAX_CONCURRENT_TASKS + 1

Calls == 1..WideCalls

\* The callers of the general scenario
GeneralCallers == {1, 2}

Stops == {0 - k : k \in 1..NumStops}

-----------------------------------------------------------------------------
(* Identifiers and the entity store's content.                             *)

Zeros(n) == [i \in 1..n |-> "0"]

\* "00000000-0000-0000-0000-00000000000<d>"
UuidText(d) ==
    Zeros(8) \o <<"-">> \o Zeros(4) \o <<"-">> \o Zeros(4) \o <<"-">>
        \o Zeros(4) \o <<"-">> \o Zeros(11) \o <<d>>

NotAUuid == <<"n","o","t","-","a","-","u","u","i","d">>

\* task_id arguments: t1 and t2 are tasks of the store, t3..t6 are well-formed
\* ids of no task, tbad is malformed.
TaskIds == {"t1", "t2", "t3", "t4", "t5", "t6", "tbad"}

\* agent_id arguments: a1 is an agent of the store, a2 is not, abad is malformed.
AgentIds == {"a1", "a2", "abad"}

IdText(id) ==
    CASE id = "t1" -> UuidText("1") [] id = "t2" -> UuidText("2")
      [] id = "t3" -> UuidText("3") [] id = "t4" -> UuidText("4")
      [] id = "t5" -> UuidText("5") [] id = "t6" -> UuidText("6")
      [] id = "a1" -> UuidText("a") [] id = "a2" -> UuidText("B")
      [] OTHER -> NotAUuid

StoreTasks == {"t1", "t2"}

StoreAgents == {"a1"}

\* manager.get_task(task_id) / manager.get_agent(agent_id): the entity or None
get_task(task_id) == IF task_id \in StoreTasks THEN task_id ELSE None

get_agent(agent_id) == IF agent_id \in StoreAgents THEN agent_id ELSE None

Kinds == {"execute_task", "execute_task_background"}

Requests == [kind : Kinds, task_id : TaskIds, agent_id : AgentIds]

-----------------------------------------------------------------------------
(* The agent backend: router.run(prompt) yields a finite sequence of       *)
(* chunks, or raises while the next chunk is pulled.                       *)

\* A chunk: its type, its content and the name of its metadata (an optional
\* text, only tool_use chunks carry one).
Msg(t) == [type |-> "message", content |-> t, name |-> NoText]

\* n: NoText when the chunk has no metadata or its metadata has no name
ToolUse(n) == [type |-> "tool_use", content |-> <<>>, name |-> n]

ToolResult(t) == [type |-> "tool_result", content |-> t, name |-> NoText]

ErrorChunk(t) == [type |-> "error", content |-> t, name |-> NoText]

DoneChunk == [type |-> "done", content |-> <<>>, name |-> NoText]

\* Not a chunk: the exception raised by the pull, str(e) = t
Raise(t) == [type |-> "raise", content |-> t, name |-> NoText]

\* Not a chunk: the sequence is exhausted (StopAsyncIteration)
EndOfStream == [type |-> "end", content |-> <<>>, name |-> NoText]

\* "boom at /home/user/secret key=sk-123"
Boom ==
    <<"b","o","o","m"," ","a","t"," ","/","h","o","m","e","/","u","s","e","r",
      "/","s","e","c","r","e","t"," ","k","e","y","=","s","k","-","1","2","3">>

\* A fault text longer than MAX_ERROR_MESSAGE_LENGTH
LongFault == [i \in 1..(MAX_ERROR_MESSAGE_LENGTH + 3) |->
                 IF i = MAX_ERROR_MESSAGE_LENGTH THEN " " ELSE "x"]

Scripts ==
    { <<Msg(<<"a">>), Msg(<<"b">>), DoneChunk, Msg(<<"c">>)>>,
      <<Msg(<<"a">>)>>,
      <<Msg(<<"a">>), Raise(Boom)>>,
      <<Msg(<<" ">>), Msg(<<>>), Msg(<<"\t">>)>>,
      <<ToolUse(Some(<<"l","s">>)), ToolResult(<<"r">>), ToolUse(NoText),
        ErrorChunk(Boom)>>,
      <<ErrorChunk(<<>>)>>,
      <<Raise(LongFault)>>,
      <<Raise(<<>>)>> }

\* The scripts of a backend that yields one message
ShortScripts == { <<Msg(<<"a">>)>> }

\* The scripts of a backend that raises, at the first pull or after a
\* message, and of one that yields a chunk of each published type
FaultScripts ==
    { x \in Scripts : x[Len(x)].type = "raise" \/ x[1].type = "tool_use" }

\* The scripts a name stands for
ScriptSet(name) ==
    IF name = "full" THEN Scripts
    ELSE IF name = "fault" THEN FaultScripts
    ELSE ShortScripts

IsPrefix(h, s) == Len(h) <= Len(s) /\ SubSeq(s, 1, Len(h)) = h

-----------------------------------------------------------------------------
(* State.                                                                  *)

VARIABLES
    \* --- the scenario: what the callers and the collaborators may do
    plan,            \* plan[c]: names the requests call c may make
    scripts,         \* scripts[c]: names the sequences c's backend may yield
    stop_plan,       \* the task ids stop_task may be called with
    yields_left,     \* store/bus awaits that may still suspend
    \* --- MCTaskExecutor
    _running_tasks,  \* task_id -> asyncio task (a call), Nil when absent
    _agent_routers,  \* task_id -> router (named by the call that made it)
    _stop_flags,     \* task_id -> "absent" | "False" | "True"
    \* --- entity store
    task_status,     \* task -> TODO | IN_PROGRESS | DONE | BLOCKED
    task_agent,      \* task -> agent_id passed with the last status update
    agent_status,    \* agent -> IDLE | ACTIVE
    agent_task,      \* agent -> its active task, None
    \* --- the event loop
    cur,             \* the coroutine that runs and has not suspended, Nil
    \* --- one frame per call of execute_task
    pc,              \* the await the coroutine is suspended at
    req,             \* its arguments
    hist,            \* the items its backend has yielded so far
    router_stopped,  \* router.stop() was called on its router
    output_chunks, final_status, error_message,
    cancel_req,      \* asyncio.Task.cancel() was called and not yet delivered
    pending_exc,     \* a CancelledError unwinds through the finally block
    result,          \* the returned dict, or the rejection
    effects,         \* what the call wrote to store and bus, in order
    admitted,        \* the call passed admission (line 138 was reached)
    caught,          \* the except clause of line 252 caught an exception
    bg_ok,           \* execute_task_background was called for a task and an
                     \* agent of the store, with no execution of the task and
                     \* fewer than MAX_CONCURRENT_TASKS executions in progress
    \* --- one frame per call of stop_task
    spc, stask, starget, sret,
    stop_view,       \* what the caller of stop_task sees when it returns
    stop_seen,       \* stop_seen[c]: stop_task was called on c's task while
                     \* c was consuming chunks
    flagged_at       \* flagged_at[c]: 0, or 1 + the number of chunks c had
                     \* pulled when stop_task first set the flag of its task
                     \* during c's session

scenario == <<plan, scripts, stop_plan>>

executor == <<_running_tasks, _agent_routers, _stop_flags>>

store == <<task_status, task_agent, agent_status, agent_task>>

history == <<admitted, caught, bg_ok>>

frames == <<pc, req, hist, router_stopped, output_chunks, final_status,
            error_message, cancel_req, pending_exc, result, effects, history>>

stopframes == <<spc, stask, starget, sret, stop_view, stop_seen, flagged_at>>

vars == <<scenario, yields_left, executor, store, cur, frames, stopframes>>


-----------------------------------------------------------------------------
(* Scenarios.                                                              *)

\* What a caller of the general scenario may ask for: the two tasks of the
\* store with its agent, and one request per way of failing admission.
GeneralRequests ==
    { r \in Requests :
        \/ r.task_id \in {"t1", "t2"} /\ r.agent_id = "a1"
        \/ r.task_id \in {"t3", "tbad"} /\ r.agent_id = "a1"
        \/ r.task_id = "t1" /\ r.agent_id \in {"a2", "abad"} }

\* What the second caller of the general scenario asks for: an execution, by
\* either entry point, of a task of the store or of an unknown one, by the
\* agent of the store (the first caller asks for the malformed ids and the
\* unknown agent)
SecondRequests ==
    { r \in GeneralRequests : r.agent_id = "a1" /\ r.task_id # "tbad" }

\* What a caller of the wide scenario asks for
WideRequests ==
    { r \in Requests :
        r.kind = "execute_task" /\ r.task_id = "t1" /\ r.agent_id = "a1" }

\* What the callers of the crowded scenario ask for: the first five start
\* background executions of five different tasks, the sixth executes an
\* unknown task or the first one.
CrowdRequests(k) ==
    { r \in Requests :
        /\ r.agent_id = "a1"
        /\ IF k <= MAX_CONCURRENT_TASKS
           THEN /\ r.kind = "execute_task_background"
                /\ r.task_id = <<"t1", "t2", "t3", "t4", "t5">>[k]
           ELSE /\ r.kind = "execute_task"
                /\ r.task_id \in {"t1", "t6"} }

\* What the callers of the flood scenario ask for: the background execution
\* of a task of their own each
FloodRequests(k) ==
    { r \in Requests :
        /\ r.kind = "execute_task_background"
        /\ r.agent_id = "a1"
        /\ r.task_id = <<"t1", "t2", "t3", "t4", "t5", "t6">>[k] }

\* What the third caller of the trio scenario asks for
TrioBackground ==
    { r \in Requests :
        r.kind = "execute_task_background" /\ r.task_id = "t1" /\ r.agent_id = "a1" }

NoResult == [status |-> None, output |-> NoText, error |-> NoText,
             rejection |-> None]

NoRequest == [kind |-> None, task_id |-> None, agent_id |-> None]

NoView == [running |-> FALSE, unfinalized |-> FALSE]

\* MCTaskExecutor.__init__, a store whose tasks are TODO and whose agents are
\* IDLE, and no call made yet.
InitState ==
    /\ _running_tasks = [t \in TaskIds |-> Nil]
    /\ _agent_routers = [t \in TaskIds |-> Nil]
    /\ _stop_flags = [t \in TaskIds |-> "absent"]
    /\ task_status = [t \in StoreTasks |-> "TODO"]
    /\ task_agent = [t \in StoreTasks |-> None]
    /\ agent_status = [a \in StoreAgents |-> "IDLE"]
    /\ agent_task = [a \in StoreAgents |-> None]
    /\ cur = Nil
    /\ pc = [c \in Calls |-> "idle"]
    /\ req = [c \in Calls |-> NoRequest]
    /\ hist = [c \in Calls |-> <<>>]
    /\ router_stopped = [c \in Calls |-> FALSE]
    /\ output_chunks = [c \in Calls |-> <<>>]
    /\ final_status = [c \in Calls |-> None]
    /\ error_message = [c \in Calls |-> NoText]
    /\ cancel_req = [c \in Calls |-> FALSE]
    /\ pending_exc = [c \in Calls |-> FALSE]
    /\ result = [c \in Calls |-> NoResult]
    /\ effects = [c \in Calls |-> <<>>]
    /\ admitted = [c \in Calls |-> FALSE]
    /\ caught = [c \in Calls |-> FALSE]
    /\ bg_ok = [c \in Calls |-> FALSE]
    /\ spc = [s \in Stops |-> "idle"]
    /\ stask = [s \in Stops |-> None]
    /\ starget = [s \in Stops |-> Nil]
    /\ sret = [s \in Stops |-> None]
    /\ stop_view = [s \in Stops |-> NoView]
    /\ stop_seen = [c \in Calls |-> FALSE]
    /\ flagged_at = [c \in Calls |-> 0]

\* The requests a plan names
PlanSet(name) ==
    CASE name = "general" -> GeneralRequests
      [] name = "second" -> SecondRequests
      [] name = "wide" -> WideRequests
      [] name = "trio" -> TrioBackground
      [] name \in {"crowd1", "crowd2", "crowd3", "crowd4", "crowd5"} ->
            CrowdRequests(CHOOSE k \in 1..MAX_CONCURRENT_TASKS :
                            name = <<"crowd1", "crowd2", "crowd3", "crowd4", "crowd5">>[k])
      [] name = "crowd6" -> CrowdRequests(MAX_CONCURRENT_TASKS + 1)
      [] name \in {"flood1", "flood2", "flood3", "flood4", "flood5", "flood6"} ->
            FloodRequests(CHOOSE k \in Calls :
                            name = <<"flood1", "flood2", "flood3", "flood4",
                                     "flood5", "flood6">>[k])
      [] OTHER -> {}

\* The general scenario: two callers, the first one making any request with
\* a backend yielding any script, the second one any well-formed request,
\* NumStops callers of stop_task, and MaxYields suspensions at store and bus
\* awaits.
Init ==
    /\ InitState
    /\ plan = [c \in Calls |-> IF c \notin GeneralCallers THEN "none"
                                ELSE IF c = 1 THEN "general" ELSE "second"]
    /\ scripts = [c \in Calls |-> IF c = 1 THEN "full" ELSE "short"]
    /\ stop_plan = {"t1"}
    /\ yields_left = MaxYields

\* The faulty-loop scenario: the first caller executes task t1 with a backend
\* that raises or yields chunks of every published type, the second makes
\* any well-formed request and its backend yields one message, with
\* NumStops callers of stop_task and MaxYields suspensions.
InitLoopFault ==
    /\ InitState
    /\ plan = [c \in Calls |-> IF c \notin GeneralCallers THEN "none"
                                ELSE IF c = 1 THEN "wide" ELSE "second"]
    /\ scripts = [c \in Calls |-> IF c = 1 THEN "fault" ELSE "short"]
    /\ stop_plan = {"t1"}
    /\ yields_left = MaxYields

\* The wide scenario: MAX_CONCURRENT_TASKS + 1 callers of execute_task,
\* short scripts, no caller of stop_task, and store and bus awaits that never
\* suspend.
InitWide ==
    /\ InitState
    /\ plan = [c \in Calls |-> "wide"]
    /\ scripts = [c \in Calls |-> "short"]
    /\ stop_plan = {}
    /\ yields_left = 0

\* The crowded scenario: five background requests for five tasks, then a
\* sixth request, no caller of stop_task, awaits that never suspend.
InitCrowd ==
    /\ InitState
    /\ plan = [c \in Calls |->
                 <<"crowd1", "crowd2", "crowd3", "crowd4", "crowd5", "crowd6">>[c]]
    /\ scripts = [c \in Calls |-> "short"]
    /\ stop_plan = {}
    /\ yields_left = 0

\* The flood scenario: MAX_CONCURRENT_TASKS + 1 background requests for as
\* many tasks, no caller of stop_task, awaits that never suspend.
InitFlood ==
    /\ InitState
    /\ plan = [c \in Calls |->
                 <<"flood1", "flood2", "flood3", "flood4", "flood5", "flood6">>[c]]
    /\ scripts = [c \in Calls |-> "short"]
    /\ stop_plan = {}
    /\ yields_left = 0

\* The trio scenario: two callers of execute_task and one of
\* execute_task_background, all for the same task and agent, and NumStops
\* callers of stop_task.
InitTrio ==
    /\ InitState
    /\ plan = [c \in Calls |-> IF c \in {1, 2} THEN "wide"
                                ELSE IF c = 3 THEN "trio" ELSE "none"]
    /\ scripts = [c \in Calls |-> "short"]
    /\ stop_plan = {"t1"}
    /\ yields_left = 0

-----------------------------------------------------------------------------
(* The event loop.                                                         *)

\* Awaits on the store, the bus and router.stop(): they may complete without
\* suspending the caller.  The pull of the next chunk and the await of
\* another asyncio task always suspend.
SoftAwaits ==
    {"get_task", "get_agent", "update_task_status", "set_agent_status",
     "bcast_started", "log_started", "pub_started", "bcast_output",
     "fin_task_status", "fin_agent_status", "bcast_completed", "log_outcome",
     "pub_outcome", "save_document", "log_deliverable", "pub_deliverable",
     "router_stop"}

\* Lines 103-187, 198-250 and 258-313 of execute_task.  _log_activity awaits
\* twice: "log_..." is its await of save_activity (line 529), "pub_..." its
\* await of the mc_activity_created event (lines 532 and 501).
PreTry ==
    {"scheduled", "get_task", "get_agent", "update_task_status",
     "set_agent_status", "bcast_started", "log_started", "pub_started"}

InTry == {"pull", "bcast_output"}

InFinally ==
    {"fin_task_status", "fin_agent_status", "bcast_completed", "log_outcome",
     "pub_outcome", "save_document", "log_deliverable", "pub_deliverable"}

\* asyncio.Task.done()
TaskDone(c) == pc[c] \in {"done", "rejected", "cancelled", "raised"}

\* Coroutine x may run its next segment: no other coroutine holds the loop.
Runnable(x) == cur \in {Nil, x}

\* Coroutine x reaches the await `at`: a soft await either completes at once
\* (x keeps the loop) or suspends x, any other await suspends x.
Await(x, at) ==
    IF at \in SoftAwaits
    THEN \E suspend \in (IF yields_left > 0 THEN BOOLEAN ELSE {FALSE}) :
            /\ cur' = IF suspend THEN Nil ELSE x
            /\ yields_left' = IF suspend THEN yields_left - 1 ELSE yields_left
    ELSE cur' = Nil /\ yields_left' = yields_left

-----------------------------------------------------------------------------
(* execute_task, executor.py lines 78-320.                                 *)

Effect(op, arg, text) == [op |-> op, arg |-> arg, text |-> text]

Log(c, e) == effects' = [effects EXCEPT ![c] = Append(@, e)]

\* is_task_running, line 383
is_task_running(task_id) == _running_tasks[task_id] # Nil

\* get_running_tasks, line 391
get_running_tasks == {t \in TaskIds : _running_tasks[t] # Nil}

\* The checks of lines 103-110 alone
EntryCheckNoCapacity(r) ==
    IF ~_is_valid_uuid(IdText(r.task_id)) THEN "Invalid task ID format"
    ELSE IF ~_is_valid_uuid(IdText(r.agent_id)) THEN "Invalid agent ID format"
    ELSE "ok"

\* Lines 103-121: the checks made before the first await.  "ok" or the error
\* of the returned dict.
EntryCheck(r) ==
    IF ~_is_valid_uuid(IdText(r.task_id)) THEN "Invalid task ID format"
    ELSE IF ~_is_valid_uuid(IdText(r.agent_id)) THEN "Invalid agent ID format"
    ELSE IF Cardinality(get_running_tasks) >= MAX_CONCURRENT_TASKS
         THEN "Maximum concurrent tasks (5) reached. Please wait."
    ELSE "ok"

Rejection(msg) == [status |-> "error", output |-> NoText, error |-> NoText,
                   rejection |-> msg]

\* The coroutine of call c starts with arguments r and runs to line 126.
Enter(c, r) ==
    LET chk == EntryCheck(r)
    IN  IF chk = "ok"
        THEN /\ pc' = [pc EXCEPT ![c] = "get_task"]
             /\ result' = result
             /\ Await(c, "get_task")
        ELSE /\ pc' = [pc EXCEPT ![c] = "rejected"]
             /\ result' = [result EXCEPT ![c] = Rejection(chk)]
             /\ Await(c, "rejected")

\* Calls are numbered in the order they are made.
NextCall(c) == pc[c] = "idle" /\ (IF c = 1 THEN TRUE ELSE pc[c - 1] # "idle")

\* A caller awaits execute_task(task_id, agent_id): lines 103-126.
ExecuteTask(c) ==
    /\ cur = Nil
    /\ NextCall(c)
    /\ \E r \in PlanSet(plan[c]) :
        /\ r.kind = "execute_task"
        /\ req' = [req EXCEPT ![c] = r]
        /\ Enter(c, r)
    /\ UNCHANGED <<scenario, executor, store, hist, router_stopped,
                   output_chunks, final_status, error_message, cancel_req,
                   pending_exc, effects, stopframes,
                   history>>

\* The session of call c is admitted and its finally block has not finished:
\* an execution in progress.
InProgress(c) ==
    pc[c] \in {"update_task_status", "set_agent_status", "bcast_started",
               "log_started", "pub_started"} \cup InTry \cup InFinally

\* The executions in progress
Executions == {c \in Calls : InProgress(c)}

\* The precondition under which a background request must come to run
BackgroundPrecondition(r) ==
    /\ get_task(r.task_id) # None
    /\ get_agent(r.agent_id) # None
    /\ \A c \in Executions : req[c].task_id # r.task_id
    /\ Cardinality(Executions) < MAX_CONCURRENT_TASKS

\* execute_task_background, lines 336-337: the asyncio task is created and
\* registered; its coroutine has not started.
ExecuteTaskBackground(c) ==
    /\ cur = Nil
    /\ NextCall(c)
    /\ \E r \in PlanSet(plan[c]) :
        /\ r.kind = "execute_task_background"
        /\ req' = [req EXCEPT ![c] = r]
        /\ _running_tasks' = [_running_tasks EXCEPT ![r.task_id] = c]
        /\ bg_ok' = [bg_ok EXCEPT ![c] = BackgroundPrecondition(r)]
    /\ pc' = [pc EXCEPT ![c] = "scheduled"]
    /\ UNCHANGED <<scenario, yields_left, _agent_routers, _stop_flags, store,
                   cur, hist, router_stopped, output_chunks, final_status,
                   error_message, cancel_req, pending_exc, result, effects,
                   stopframes, admitted, caught>>

\* The event loop starts the coroutine of a background task: lines 103-126.
StartTask(c) ==
    /\ cur = Nil
    /\ pc[c] = "scheduled"
    /\ ~cancel_req[c]
    /\ Enter(c, req[c])
    /\ UNCHANGED <<scenario, executor, store, req, hist, router_stopped,
                   output_chunks, final_status, error_message, cancel_req,
                   pending_exc, effects, stopframes,
                   history>>

\* Coroutine c is resumed at the await `at` (and no cancellation is pending).
Resumes(c, at) == Runnable(c) /\ pc[c] = at /\ ~cancel_req[c]

\* manager.get_task returns: lines 126-130.
GetTask(c) ==
    /\ Resumes(c, "get_task")
    /\ IF get_task(req[c].task_id) = None
       THEN /\ pc' = [pc EXCEPT ![c] = "rejected"]
            /\ result' = [result EXCEPT ![c] = Rejection("Task not found")]
            /\ Await(c, "rejected")
       ELSE /\ pc' = [pc EXCEPT ![c] = "get_agent"]
            /\ result' = result
            /\ Await(c, "get_agent")
    /\ UNCHANGED <<scenario, executor, store, req, hist, router_stopped,
                   output_chunks, final_status, error_message, cancel_req,
                   pending_exc, effects, stopframes,
                   history>>

\* The checks of lines 131-132 alone
AdmissionCheckAgentOnly(r) ==
    IF get_agent(r.agent_id) = None THEN "Agent not found" ELSE "ok"

\* Lines 131-136: the checks made once manager.get_agent has returned.
AdmissionCheck(r) ==
    IF get_agent(r.agent_id) = None THEN "Agent not found"
    ELSE IF r.task_id \in get_running_tasks THEN "Task is already running"
    ELSE "ok"

\* manager.get_agent returns: lines 130-166.  The session is admitted: its
\* stop flag is initialised and its router is created.
GetAgent(c) ==
    /\ Resumes(c, "get_agent")
    /\ LET chk == AdmissionCheck(req[c])
           t == req[c].task_id
       IN  IF chk = "ok"
           THEN /\ _stop_flags' = [_stop_flags EXCEPT ![t] = "False"]
                /\ _agent_routers' = [_agent_routers EXCEPT ![t] = c]
                /\ admitted' = [admitted EXCEPT ![c] = TRUE]
                /\ pc' = [pc EXCEPT ![c] = "update_task_status"]
                /\ result' = result
                /\ Await(c, "update_task_status")
           ELSE /\ UNCHANGED <<_stop_flags, _agent_routers, admitted>>
                /\ pc' = [pc EXCEPT ![c] = "rejected"]
                /\ result' = [result EXCEPT ![c] = Rejection(chk)]
                /\ Await(c, "rejected")
    /\ UNCHANGED <<scenario, _running_tasks, store, req, hist, router_stopped,
                   output_chunks, final_status, error_message, cancel_req,
                   pending_exc, effects, stopframes,
                   caught, bg_ok>>

\* manager.update_task_status(task_id, IN_PROGRESS, agent_id), line 166
UpdateTaskStatus(c) ==
    /\ Resumes(c, "update_task_status")
    /\ task_status' = [task_status EXCEPT ![req[c].task_id] = "IN_PROGRESS"]
    /\ task_agent' = [task_agent EXCEPT ![req[c].task_id] = req[c].agent_id]
    /\ Log(c, Effect("update_task_status", "IN_PROGRESS", NoText))
    /\ pc' = [pc EXCEPT ![c] = "set_agent_status"]
    /\ Await(c, "set_agent_status")
    /\ UNCHANGED <<scenario, executor, agent_status, agent_task, req, hist,
                   router_stopped, output_chunks, final_status, error_message,
                   cancel_req, pending_exc, result, stopframes,
                   history>>

\* manager.set_agent_status(agent_id, ACTIVE, task_id), line 167
SetAgentStatus(c) ==
    /\ Resumes(c, "set_agent_status")
    /\ agent_status' = [agent_status EXCEPT ![req[c].agent_id] = "ACTIVE"]
    /\ agent_task' = [agent_task EXCEPT ![req[c].agent_id] = req[c].task_id]
    /\ Log(c, Effect("set_agent_status", "ACTIVE", NoText))
    /\ pc' = [pc EXCEPT ![c] = "bcast_started"]
    /\ Await(c, "bcast_started")
    /\ UNCHANGED <<scenario, executor, task_status, task_agent, req, hist,
                   router_stopped, output_chunks, final_status, error_message,
                   cancel_req, pending_exc, result, stopframes,
                   history>>

\* _broadcast_event("mc_task_started", ...), lines 170-179
BroadcastStarted(c) ==
    /\ Resumes(c, "bcast_started")
    /\ Log(c, Effect("mc_task_started", None, NoText))
    /\ pc' = [pc EXCEPT ![c] = "log_started"]
    /\ Await(c, "log_started")
    /\ UNCHANGED <<scenario, executor, store, req, hist, router_stopped,
                   output_chunks, final_status, error_message, cancel_req,
                   pending_exc, result, stopframes,
                   history>>

\* A start that saves no activity
LogStartedSilent(c) ==
    /\ Resumes(c, "log_started")
    /\ pc' = [pc EXCEPT ![c] = "pub_started"]
    /\ Await(c, "pub_started")
    /\ UNCHANGED <<scenario, executor, store, req, hist, router_stopped,
                   output_chunks, final_status, error_message, cancel_req,
                   pending_exc, result, effects, stopframes,
                   history>>

\* _log_activity(TASK_UPDATED, "... started working on ..."), lines 182-187:
\* manager._store.save_activity(activity) returns, line 529, and the
\* mc_activity_created event is handed to the bus, lines 532 and 501.
LogStarted(c) ==
    /\ Resumes(c, "log_started")
    /\ Log(c, Effect("activity", "started", NoText))
    /\ pc' = [pc EXCEPT ![c] = "pub_started"]
    /\ Await(c, "pub_started")
    /\ UNCHANGED <<scenario, executor, store, req, hist, router_stopped,
                   output_chunks, final_status, error_message, cancel_req,
                   pending_exc, result, stopframes,
                   history>>

\* The mc_activity_created event of the start activity is published and
\* _log_activity returns, lines 532-539 and 182-198: the prompt is built, the
\* locals of the loop are initialised and the first chunk is asked for.
LogStartedBroadcast(c) ==
    /\ Resumes(c, "pub_started")
    /\ Log(c, Effect("mc_activity_created", "started", NoText))
    /\ output_chunks' = [output_chunks EXCEPT ![c] = <<>>]
    /\ final_status' = [final_status EXCEPT ![c] = "completed"]
    /\ error_message' = [error_message EXCEPT ![c] = NoText]
    /\ pc' = [pc EXCEPT ![c] = "pull"]
    /\ Await(c, "pull")
    /\ UNCHANGED <<scenario, executor, store, req, hist, router_stopped,
                   cancel_req, pending_exc, result, stopframes,
                   history>>

-----------------------------------------------------------------------------
(* The chunk loop, lines 197-256.                                          *)

\* What the backend of call c may yield next: the next item of one of its
\* scripts; the end of the sequence once a script is exhausted, or at any
\* point after router.stop().
NextItems(c) ==
    LET h == hist[c]
    IN  { x[Len(h) + 1] : x \in {y \in ScriptSet(scripts[c]) : IsPrefix(h, y) /\ Len(y) > Len(h)} }
          \cup (IF h \in ScriptSet(scripts[c]) \/ router_stopped[c] THEN {EndOfStream} ELSE {})

Locals(next, oc, fs, em) ==
    [next |-> next, output_chunks |-> oc, final_status |-> fs, error_message |-> em]

\* A loop body that also accumulates the content of tool_result chunks
LoopBodyToolOutput(flag, chunk, oc, fs, em) ==
    IF flag = "True" THEN Locals("finally", oc, "stopped", em)
    ELSE IF chunk.type = "message" /\ chunk.content # <<>>
         THEN Locals("bcast_output", Append(oc, chunk.content), fs, em)
    ELSE IF chunk.type = "tool_use" THEN Locals("bcast_output", oc, fs, em)
    ELSE IF chunk.type = "tool_result"
         THEN Locals("bcast_output", Append(oc, chunk.content), fs, em)
    ELSE IF chunk.type = "error"
         THEN Locals("finally", oc, "error", Some(chunk.content))
    ELSE IF chunk.type = "done" THEN Locals("finally", oc, fs, em)
    ELSE Locals("pull", oc, fs, em)

\* A loop body that publishes nothing for a tool_use chunk
LoopBodySilentTool(flag, chunk, oc, fs, em) ==
    IF flag = "True" THEN Locals("finally", oc, "stopped", em)
    ELSE IF chunk.type = "message" /\ chunk.content # <<>>
         THEN Locals("bcast_output", Append(oc, chunk.content), fs, em)
    ELSE IF chunk.type = "tool_result" THEN Locals("bcast_output", oc, fs, em)
    ELSE IF chunk.type = "error"
         THEN Locals("finally", oc, "error", Some(chunk.content))
    ELSE IF chunk.type = "done" THEN Locals("finally", oc, fs, em)
    ELSE Locals("pull", oc, fs, em)

\* The body of the loop for one chunk, lines 199-250.  flag is
\* self._stop_flags.get(task_id); oc, fs, em are output_chunks, final_status
\* and error_message.  next: the await reached ("bcast_output"), the next
\* iteration ("pull") or a break ("finally").
LoopBody(flag, chunk, oc, fs, em) ==
    IF flag = "True" THEN Locals("finally", oc, "stopped", em)
    ELSE IF chunk.type = "message" /\ chunk.content # <<>>
         THEN Locals("bcast_output", Append(oc, chunk.content), fs, em)
    ELSE IF chunk.type = "tool_use" THEN Locals("bcast_output", oc, fs, em)
    ELSE IF chunk.type = "tool_result" THEN Locals("bcast_output", oc, fs, em)
    ELSE IF chunk.type = "error"
         THEN Locals("finally", oc, "error", Some(chunk.content))
    ELSE IF chunk.type = "done" THEN Locals("finally", oc, fs, em)
    ELSE Locals("pull", oc, fs, em)

\* An except clause that keeps the outcome it found
ExceptBodyKeepsStatus(text, oc) ==
    Locals("finally", oc, "completed", Some(_sanitize_error(text)))

\* Lines 252-256: an exception raised inside the try statement (by the pull
\* of a chunk or by _broadcast_event), str(e) = text
ExceptBody(text, oc) ==
    Locals("finally", oc, "error", Some(_sanitize_error(text)))

\* An iteration that takes the end of the sequence for a failure
IterationEndFails(c, item) ==
    IF item.type = "end"
    THEN Locals("finally", output_chunks[c], "error", error_message[c])
    ELSE IF item.type = "raise" THEN ExceptBody(item.content, output_chunks[c])
    ELSE LoopBody(_stop_flags[req[c].task_id], item, output_chunks[c],
                  final_status[c], error_message[c])

\* One pull of `async for chunk in router.run(prompt)` and what follows it up
\* to the next await.
Iteration(c, item) ==
    IF item.type = "end"
    THEN Locals("finally", output_chunks[c], final_status[c], error_message[c])
    ELSE IF item.type = "raise" THEN ExceptBody(item.content, output_chunks[c])
    ELSE LoopBody(_stop_flags[req[c].task_id], item, output_chunks[c],
                  final_status[c], error_message[c])

\* A cleanup that empties the three dicts
CleanupAll(t) ==
    /\ _agent_routers' = [u \in TaskIds |-> Nil]
    /\ _running_tasks' = [u \in TaskIds |-> Nil]
    /\ _stop_flags' = [u \in TaskIds |-> "absent"]

\* Lines 260-262: the three pops that open the finally block
Cleanup(t) ==
    /\ _agent_routers' = [_agent_routers EXCEPT ![t] = Nil]
    /\ _running_tasks' = [_running_tasks EXCEPT ![t] = Nil]
    /\ _stop_flags' = [_stop_flags EXCEPT ![t] = "absent"]

\* The backend yields an item (or raises, or ends): lines 198-266.
Pull(c) ==
    /\ Resumes(c, "pull")
    /\ \E item \in NextItems(c) :
        LET n == Iteration(c, item)
        IN  /\ hist' = [hist EXCEPT ![c] = Append(@, item)]
            /\ caught' = [caught EXCEPT ![c] = @ \/ item.type = "raise"]
            /\ output_chunks' = [output_chunks EXCEPT ![c] = n.output_chunks]
            /\ final_status' = [final_status EXCEPT ![c] = n.final_status]
            /\ error_message' = [error_message EXCEPT ![c] = n.error_message]
            /\ IF n.next = "finally"
               THEN /\ Cleanup(req[c].task_id)
                    /\ pc' = [pc EXCEPT ![c] = "fin_task_status"]
                    /\ Await(c, "fin_task_status")
               ELSE /\ UNCHANGED executor
                    /\ pc' = [pc EXCEPT ![c] = n.next]
                    /\ Await(c, n.next)
    /\ UNCHANGED <<scenario, store, req, router_stopped, cancel_req,
                   pending_exc, result, effects, stopframes,
                   admitted, bg_ok>>

UsingTool == <<"U","s","i","n","g"," ","t","o","o","l",":"," ">>

ToolResultPrefix == <<"T","o","o","l"," ","r","e","s","u","l","t",":"," ">>

Unknown == <<"u","n","k","n","o","w","n">>

\* chunk.get("metadata", {}).get("name", "unknown"), line 221: the name of
\* the metadata, "unknown" when there is none
ToolName(n) == IF n = NoText THEN Unknown ELSE n[1]

\* The mc_task_output event of a chunk, lines 210-242
OutputEvent(chunk) ==
    IF chunk.type = "message"
    THEN Effect("mc_task_output", "message", Some(chunk.content))
    ELSE IF chunk.type = "tool_use"
    THEN Effect("mc_task_output", "tool_use", Some(UsingTool \o ToolName(chunk.name)))
    ELSE Effect("mc_task_output", "tool_result",
                Some(ToolResultPrefix \o Take(chunk.content, 200)))

\* _broadcast_event("mc_task_output", ...) for the chunk just classified,
\* then the next pull.
BroadcastOutput(c) ==
    /\ Resumes(c, "bcast_output")
    /\ Log(c, OutputEvent(hist[c][Len(hist[c])]))
    /\ pc' = [pc EXCEPT ![c] = "pull"]
    /\ Await(c, "pull")
    /\ UNCHANGED <<scenario, executor, store, req, hist, router_stopped,
                   output_chunks, final_status, error_message, cancel_req,
                   pending_exc, result, stopframes,
                   history>>

\* bus.publish_system raises inside the loop, lines 210-242 and 501, with
\* str(e) = Boom: the except clause of line 252 catches it.
BroadcastOutputFails(c) ==
    /\ Resumes(c, "bcast_output")
    /\ LET n == ExceptBody(Boom, output_chunks[c])
       IN  /\ output_chunks' = [output_chunks EXCEPT ![c] = n.output_chunks]
           /\ final_status' = [final_status EXCEPT ![c] = n.final_status]
           /\ error_message' = [error_message EXCEPT ![c] = n.error_message]
    /\ caught' = [caught EXCEPT ![c] = TRUE]
    /\ Cleanup(req[c].task_id)
    /\ pc' = [pc EXCEPT ![c] = "fin_task_status"]
    /\ Await(c, "fin_task_status")
    /\ UNCHANGED <<scenario, store, req, hist, router_stopped, cancel_req,
                   pending_exc, result, effects, stopframes,
                   admitted, bg_ok>>

-----------------------------------------------------------------------------
(* The finally block, lines 258-320.                                       *)

\* A status mapping that persists every outcome as DONE
NewTaskStatusDone(fs) == "DONE"

\* Line 265
NewTaskStatus(fs) == IF fs = "completed" THEN "DONE" ELSE "BLOCKED"

\* manager.update_task_status(task_id, new_task_status, agent_id), line 266
FinTaskStatus(c) ==
    /\ Resumes(c, "fin_task_status")
    /\ task_status' = [task_status EXCEPT
                         ![req[c].task_id] = NewTaskStatus(final_status[c])]
    /\ task_agent' = [task_agent EXCEPT ![req[c].task_id] = req[c].agent_id]
    /\ Log(c, Effect("update_task_status", NewTaskStatus(final_status[c]), NoText))
    /\ pc' = [pc EXCEPT ![c] = "fin_agent_status"]
    /\ Await(c, "fin_agent_status")
    /\ UNCHANGED <<scenario, executor, agent_status, agent_task, req, hist,
                   router_stopped, output_chunks, final_status, error_message,
                   cancel_req, pending_exc, result, stopframes,
                   history>>

\* manager.set_agent_status(agent_id, IDLE, None), line 267
FinAgentStatus(c) ==
    /\ Resumes(c, "fin_agent_status")
    /\ agent_status' = [agent_status EXCEPT ![req[c].agent_id] = "IDLE"]
    /\ agent_task' = [agent_task EXCEPT ![req[c].agent_id] = None]
    /\ Log(c, Effect("set_agent_status", "IDLE", NoText))
    /\ pc' = [pc EXCEPT ![c] = "bcast_completed"]
    /\ Await(c, "bcast_completed")
    /\ UNCHANGED <<scenario, executor, task_status, task_agent, req, hist,
                   router_stopped, output_chunks, final_status, error_message,
                   cancel_req, pending_exc, result, stopframes,
                   history>>

\* _broadcast_event("mc_task_completed", ...), lines 270-279
BroadcastCompleted(c) ==
    /\ Resumes(c, "bcast_completed")
    /\ Log(c, Effect("mc_task_completed", final_status[c], error_message[c]))
    /\ pc' = [pc EXCEPT ![c] = "log_outcome"]
    /\ Await(c, "log_outcome")
    /\ UNCHANGED <<scenario, executor, store, req, hist, router_stopped,
                   output_chunks, final_status, error_message, cancel_req,
                   pending_exc, result, stopframes,
                   history>>

\* Lines 315-320, or the CancelledError that went through the finally block
\* leaves execute_task.
Leave(c) ==
    IF pending_exc[c]
    THEN /\ pc' = [pc EXCEPT ![c] = "cancelled"]
         /\ result' = result
    ELSE /\ pc' = [pc EXCEPT ![c] = "done"]
         /\ result' = [result EXCEPT ![c] =
                [status |-> final_status[c],
                 output |-> Some(Join(output_chunks[c])),
                 error |-> error_message[c],
                 rejection |-> None]]

\* A deliverable test that accepts blank output
_save_task_deliverable_unstripped(output) == output # <<>>

\* The first lines of _save_task_deliverable, 561-562: whether it goes on to
\* save the document.
_save_task_deliverable(output) == output # <<>> /\ StripNonEmpty(output)

\* Lines 282-298: whether the finally block saves the output
SavesDeliverable(fs, oc) ==
    fs = "completed" /\ oc # <<>> /\ _save_task_deliverable(Join(oc))

\* The first action of a _log_activity call: line 529 has returned, the
\* activity is saved; the message of an error activity holds error_message.
ActivityText(fs, em) == IF fs = "error" THEN em ELSE NoText

\* _log_activity of the outcome, lines 282-313: save_activity returns, line
\* 529, and the mc_activity_created event is handed to the bus.
LogOutcome(c) ==
    /\ Resumes(c, "log_outcome")
    /\ Log(c, Effect("activity", final_status[c],
                     ActivityText(final_status[c], error_message[c])))
    /\ pc' = [pc EXCEPT ![c] = "pub_outcome"]
    /\ Await(c, "pub_outcome")
    /\ UNCHANGED <<scenario, executor, store, req, hist, router_stopped,
                   output_chunks, final_status, error_message, cancel_req,
                   pending_exc, result, stopframes,
                   history>>

\* The mc_activity_created event of the outcome is published and
\* _log_activity returns, lines 532-539; a completed session with output goes
\* on to _save_task_deliverable, lines 291-298 and 561-576, any other returns.
LogOutcomeBroadcast(c) ==
    /\ Resumes(c, "pub_outcome")
    /\ Log(c, Effect("mc_activity_created", final_status[c],
                     ActivityText(final_status[c], error_message[c])))
    /\ IF SavesDeliverable(final_status[c], output_chunks[c])
       THEN /\ pc' = [pc EXCEPT ![c] = "save_document"]
            /\ result' = result
            /\ Await(c, "save_document")
       ELSE /\ Leave(c)
            /\ Await(c, "done")
    /\ UNCHANGED <<scenario, executor, store, req, hist, router_stopped,
                   output_chunks, final_status, error_message, cancel_req,
                   pending_exc, stopframes,
                   history>>

\* manager._store.save_document(document), line 576
SaveDocument(c) ==
    /\ Resumes(c, "save_document")
    /\ Log(c, Effect("save_document", "DELIVERABLE", Some(Join(output_chunks[c]))))
    /\ pc' = [pc EXCEPT ![c] = "log_deliverable"]
    /\ Await(c, "log_deliverable")
    /\ UNCHANGED <<scenario, executor, store, req, hist, router_stopped,
                   output_chunks, final_status, error_message, cancel_req,
                   pending_exc, result, stopframes,
                   history>>

\* manager._store.save_document(document) raises, line 576: nothing catches
\* the exception in _save_task_deliverable or in the finally block, it leaves
\* execute_task.
SaveDocumentFails(c) ==
    /\ Resumes(c, "save_document")
    /\ pc' = [pc EXCEPT ![c] = "raised"]
    /\ cur' = Nil
    /\ UNCHANGED <<scenario, yields_left, executor, store, req, hist, router_stopped,
                   output_chunks, final_status, error_message, cancel_req,
                   pending_exc, result, effects, stopframes,
                   history>>

\* _log_activity(DOCUMENT_CREATED, ...), lines 583-588: save_activity
\* returns, line 529, and the mc_activity_created event is handed to the bus.
LogDeliverable(c) ==
    /\ Resumes(c, "log_deliverable")
    /\ Log(c, Effect("activity", "document", NoText))
    /\ pc' = [pc EXCEPT ![c] = "pub_deliverable"]
    /\ Await(c, "pub_deliverable")
    /\ UNCHANGED <<scenario, executor, store, req, hist, router_stopped,
                   output_chunks, final_status, error_message, cancel_req,
                   pending_exc, result, stopframes,
                   history>>

\* The mc_activity_created event of the document is published, lines 532-539;
\* _save_task_deliverable and execute_task return, lines 315-320.
LogDeliverableBroadcast(c) ==
    /\ Resumes(c, "pub_deliverable")
    /\ Log(c, Effect("mc_activity_created", "document", NoText))
    /\ Leave(c)
    /\ Await(c, "done")
    /\ UNCHANGED <<scenario, executor, store, req, hist, router_stopped,
                   output_chunks, final_status, error_message, cancel_req,
                   pending_exc, stopframes,
                   history>>

\* A cancelled asyncio task is resumed with CancelledError at its await.  It
\* is no Exception: before the try statement and inside the finally block it
\* leaves execute_task at once, inside the try statement it runs the finally
\* block first.
DeliverCancel(c) ==
    /\ cur = Nil
    /\ cancel_req[c]
    /\ pc[c] \in PreTry \cup InTry \cup InFinally
    /\ cancel_req' = [cancel_req EXCEPT ![c] = FALSE]
    /\ IF pc[c] \in InTry
       THEN /\ Cleanup(req[c].task_id)
            /\ pending_exc' = [pending_exc EXCEPT ![c] = TRUE]
            /\ pc' = [pc EXCEPT ![c] = "fin_task_status"]
            /\ Await(c, "fin_task_status")
       ELSE /\ UNCHANGED <<executor, pending_exc>>
            /\ pc' = [pc EXCEPT ![c] = "cancelled"]
            /\ Await(c, "cancelled")
    /\ UNCHANGED <<scenario, store, req, hist, router_stopped, output_chunks,
                   final_status, error_message, result, effects, stopframes,
                   history>>


-----------------------------------------------------------------------------
(* stop_task, executor.py lines 339-372.                                   *)

\* The session of call c has been admitted (line 145 was reached) and its
\* finalization has not yet published mc_task_completed.
Unfinalized(c) ==
    pc[c] \in {"update_task_status", "set_agent_status", "bcast_started",
               "log_started", "pub_started", "pull", "bcast_output",
               "fin_task_status",
               "fin_agent_status", "bcast_completed"}

\* What the caller of stop_task(t) can observe at the return
View(t) ==
    [running |-> is_task_running(t),
     unfinalized |-> \E c \in Calls : req[c].task_id = t /\ Unfinalized(c)]

\* stop_task returns v.
Return(s, t, v) ==
    /\ spc' = [spc EXCEPT ![s] = "returned"]
    /\ sret' = [sret EXCEPT ![s] = v]
    /\ stop_view' = [stop_view EXCEPT ![s] = View(t)]
    /\ cur' = Nil

\* Lines 363-372: the registered asyncio task is cancelled and awaited, unless
\* there is none or it is done.
CancelAndWait(s, t) ==
    LET async_task == _running_tasks[t]
    IN  IF async_task # Nil /\ ~TaskDone(async_task)
        THEN /\ cancel_req' = [cancel_req EXCEPT ![async_task] = TRUE]
             /\ spc' = [spc EXCEPT ![s] = "await_task"]
             /\ starget' = [starget EXCEPT ![s] = async_task]
             /\ cur' = Nil
             /\ UNCHANGED <<sret, stop_view>>
        ELSE /\ Return(s, t, "True")
             /\ UNCHANGED <<cancel_req, starget>>

\* The session of a call is admitted and has not reached its finally block:
\* lines 145-250.
BeforeFinally ==
    {"update_task_status", "set_agent_status", "bcast_started", "log_started",
     "pub_started"} \cup InTry

NextStop(s) == spc[s] = "idle" /\ (IF s = 0 - 1 THEN TRUE ELSE spc[s + 1] # "idle")

\* A caller awaits stop_task(task_id): lines 348-358.
StopTask(s) ==
    /\ cur = Nil
    /\ NextStop(s)
    /\ \E t \in stop_plan :
        /\ stask' = [stask EXCEPT ![s] = t]
        /\ stop_seen' = [c \in Calls |->
               stop_seen[c] \/ (req[c].task_id = t /\ pc[c] \in InTry)]
        /\ IF ~is_task_running(t)
           THEN /\ Return(s, t, "False")
                /\ UNCHANGED <<_stop_flags, router_stopped, cancel_req,
                               starget, yields_left, flagged_at>>
           ELSE /\ _stop_flags' = [_stop_flags EXCEPT ![t] = "True"]
                /\ flagged_at' = [c \in Calls |->
                       IF /\ flagged_at[c] = 0
                          /\ req[c].task_id = t
                          /\ pc[c] \in BeforeFinally
                       THEN Len(hist[c]) + 1
                       ELSE flagged_at[c]]
                /\ IF _agent_routers[t] # Nil
                   THEN /\ router_stopped' = [router_stopped EXCEPT
                                                ![_agent_routers[t]] = TRUE]
                        /\ spc' = [spc EXCEPT ![s] = "router_stop"]
                        /\ Await(s, "router_stop")
                        /\ UNCHANGED <<cancel_req, starget, sret, stop_view>>
                   ELSE /\ CancelAndWait(s, t)
                        /\ UNCHANGED <<router_stopped, yields_left>>
    /\ UNCHANGED <<scenario, _running_tasks, _agent_routers, store, pc, req,
                   hist, output_chunks, final_status, error_message,
                   pending_exc, result, effects,
                   history>>

\* router.stop() has returned or raised (the exception is logged): lines
\* 358-372.
RouterStop(s) ==
    /\ Runnable(s)
    /\ spc[s] = "router_stop"
    /\ CancelAndWait(s, stask[s])
    /\ UNCHANGED <<scenario, yields_left, executor, store, pc, req, hist,
                   router_stopped, output_chunks, final_status, error_message,
                   pending_exc, result, effects, stask, stop_seen,
                   flagged_at, history>>

\* The awaited asyncio task is done: lines 367-372.  Its CancelledError is
\* caught; an exception it ended with leaves stop_task ("raised").
AwaitTask(s) ==
    /\ cur = Nil
    /\ spc[s] = "await_task"
    /\ TaskDone(starget[s])
    /\ Return(s, stask[s], IF pc[starget[s]] = "raised" THEN "raised" ELSE "True")
    /\ UNCHANGED <<scenario, yields_left, executor, store, frames, stask,
                   starget, stop_seen, flagged_at>>

-----------------------------------------------------------------------------
(* The system.                                                             *)

CallStep(c) ==
    \/ StartTask(c)
    \/ GetTask(c)
    \/ GetAgent(c)
    \/ UpdateTaskStatus(c)
    \/ SetAgentStatus(c)
    \/ BroadcastStarted(c)
    \/ LogStarted(c)
    \/ LogStartedBroadcast(c)
    \/ Pull(c)
    \/ BroadcastOutput(c)
    \/ FinTaskStatus(c)
    \/ FinAgentStatus(c)
    \/ BroadcastCompleted(c)
    \/ LogOutcome(c)
    \/ LogOutcomeBroadcast(c)
    \/ SaveDocument(c)
    \/ LogDeliverable(c)
    \/ LogDeliverableBroadcast(c)
    \/ DeliverCancel(c)

StopStep(s) ==
    \/ RouterStop(s)
    \/ AwaitTask(s)

Next ==
    \/ \E c \in Calls : ExecuteTask(c)
    \/ \E c \in Calls : ExecuteTaskBackground(c)
    \/ \E s \in Stops : StopTask(s)
    \/ \E c \in Calls : CallStep(c)
    \/ \E s \in Stops : StopStep(s)

Spec == Init /\ [][Next]_vars

SpecWide == (Init \/ InitWide) /\ [][Next]_vars

\* The system with a bus that may fail inside the loop
NextBusFault ==
    \/ Next
    \/ \E c \in Calls : BroadcastOutputFails(c)

\* Sessions whose pull or whose publication of a chunk may raise
SpecLoopFault == InitLoopFault /\ [][NextBusFault]_vars

\* The system with a document store and a bus that may fail
NextFault ==
    \/ Next
    \/ \E c \in Calls : SaveDocumentFails(c)
    \/ \E c \in Calls : BroadcastOutputFails(c)

SpecFault == Init /\ [][NextFault]_vars

\* Two sessions of one task, a background request for it and stop_task
SpecTrio == InitTrio /\ [][Next]_vars

\* The trio, or a registry filled by background requests
SpecCrowd == (InitTrio \/ InitCrowd) /\ [][Next]_vars

\* The trio, or one background request more than the capacity
SpecFlood == (InitTrio \/ InitFlood) /\ [][Next]_vars


-----------------------------------------------------------------------------
(* Observations on a call's effects.                                       *)

\* The effects of seq that have an op in ops and an arg in args, in order
Filter(seq, ops, args) ==
    SelectSeq(seq, LAMBDA e : e.op \in ops /\ e.arg \in args)

AnyArg == {None, "IN_PROGRESS", "DONE", "BLOCKED", "ACTIVE", "IDLE",
           "message", "tool_use", "tool_result", "completed", "error",
           "stopped", "started", "document", "DELIVERABLE"}

\* How many effects of call c have an op in ops and an arg in args
Count(c, ops, args) ==
    Cardinality({i \in DOMAIN effects[c] :
                    effects[c][i].op \in ops /\ effects[c][i].arg \in args})

Outcomes == {"completed", "error", "stopped"}

-----------------------------------------------------------------------------
(* C1: the executions in progress (sessions admitted and not yet           *)
(* finalized) never number more than MAX_CONCURRENT_TASKS.                  *)
C1_AtMostMaxExecutions ==
    Cardinality(Executions) <= MAX_CONCURRENT_TASKS

(* C2: at any time at most one session per task id is admitted and not     *)
(* yet finalized.                                                          *)
C2_OneExecutionPerTask ==
    \A t \in TaskIds :
        Cardinality({c \in Executions : req[c].task_id = t}) <= 1

(* C3: every admitted session is finalized exactly once: never more than   *)
(* one mc_task_completed event, one outcome activity, one DONE/BLOCKED      *)
(* write and one IDLE write, and exactly one of each once the call has     *)
(* ended, which it does by returning.                                      *)
C3_FinalizedExactlyOnce ==
    \A c \in Calls :
        /\ Count(c, {"mc_task_completed"}, Outcomes) <= 1
        /\ Count(c, {"activity"}, Outcomes) <= 1
        /\ Count(c, {"update_task_status"}, {"DONE", "BLOCKED"}) <= 1
        /\ Count(c, {"set_agent_status"}, {"IDLE"}) <= 1
        /\ (admitted[c] /\ TaskDone(c)) =>
              /\ pc[c] = "done"
              /\ Count(c, {"mc_task_completed"}, Outcomes) = 1
              /\ Count(c, {"activity"}, Outcomes) = 1
              /\ Count(c, {"update_task_status"}, {"DONE", "BLOCKED"}) = 1
              /\ Count(c, {"set_agent_status"}, {"IDLE"}) = 1

\* A session ended by a stop request, after stop_task was called twice for
\* its task, has returned.
C3_Witness ==
    \E c \in Calls :
        /\ admitted[c] /\ pc[c] = "done" /\ final_status[c] = "stopped"
        /\ \A s \in Stops : spc[s] = "returned" /\ stask[s] = req[c].task_id


(* C4: when stop_task was called for the task of a session that was        *)
(* consuming chunks, the session ends with outcome 'stopped': the result   *)
(* and the mc_task_completed event carry 'stopped', the task is written    *)
(* BLOCKED and no deliverable document is saved.                           *)
C4_StopEndsStopped ==
    \A c \in Calls :
        (stop_seen[c] /\ pc[c] = "done") =>
            /\ result[c].status = "stopped"
            /\ Count(c, {"mc_task_completed"}, {"stopped"}) = 1
            /\ Count(c, {"update_task_status"}, {"BLOCKED"}) = 1
            /\ Count(c, {"save_document"}, AnyArg) = 0

(* C5: when stop_task has returned True, the task is not in the running    *)
(* registry and no session of the task awaits its finalization.            *)
C5_StopTrueMeansFinalized ==
    \A s \in Stops :
        (spc[s] = "returned" /\ sret[s] = "True") =>
            /\ ~stop_view[s].running
            /\ ~stop_view[s].unfinalized

(* C6: a session saves a deliverable document at most once; it has saved   *)
(* one only if its outcome is completed and its output is not blank; once  *)
(* it has returned it has saved one if and only if the returned status is  *)
(* completed and the returned output is not blank.                         *)
C6_DeliverableIffCompletedOutput ==
    \A c \in Calls :
        LET docs == Count(c, {"save_document"}, AnyArg)
        IN  /\ docs <= 1
            /\ docs = 1 =>
                  /\ final_status[c] = "completed"
                  /\ \E i \in 1..Len(output_chunks[c]) :
                        \E j \in 1..Len(output_chunks[c][i]) :
                            output_chunks[c][i][j] \notin WhiteSpace
            /\ (admitted[c] /\ pc[c] = "done") =>
                  (docs = 1 <=>
                      /\ result[c].status = "completed"
                      /\ \E j \in 1..Len(result[c].output[1]) :
                            result[c].output[1][j] \notin WhiteSpace)

\* A completed session has returned after saving its output of two chunks.
C6_Witness ==
    \E c \in Calls :
        /\ pc[c] = "done" /\ result[c].status = "completed"
        /\ Len(output_chunks[c]) >= 2
        /\ Count(c, {"save_document"}, {"DELIVERABLE"}) = 1

\* The text of the fault that ended the session of call c: the content of
\* the error chunk or the text of the exception, the last item pulled.
C7_Fault(c) == hist[c][Len(hist[c])].content

(* C7: the error text of a session that ended with outcome error, in the   *)
(* mc_task_completed event, in the logged activity and in the returned     *)
(* result, is _sanitize_error of the text of the fault, for an error chunk *)
(* and for an exception of the pull.                                       *)
C7_FaultTextSanitized ==
    \A c \in Calls :
        (admitted[c] /\ final_status[c] = "error") =>
            LET safe == Some(_sanitize_error(C7_Fault(c)))
            IN  /\ \A i \in 1..Len(effects[c]) :
                      (\/ effects[c][i].op = "mc_task_completed"
                       \/ effects[c][i].op = "activity" /\ effects[c][i].arg = "error")
                      => effects[c][i].text = safe
                /\ pc[c] = "done" => result[c].error = safe

(* C8: a request that failed admission has written nothing to the store,   *)
(* the bus or the activity log and has left no entry of its own in the     *)
(* running registry or among the routers.                                  *)
C8_RejectionLeavesNoTrace ==
    \A c \in Calls :
        pc[c] = "rejected" =>
            /\ effects[c] = <<>>
            /\ _running_tasks[req[c].task_id] # c
            /\ _agent_routers[req[c].task_id] # c

(* C9: a background request made for a task and an agent of the store,     *)
(* with no execution of the task and fewer than MAX_CONCURRENT_TASKS       *)
(* executions in progress, and with no other request for the task, has,    *)
(* once its asyncio task is done without having been cancelled, published  *)
(* mc_task_started and then mc_task_completed.                             *)
C9_BackgroundRequestRuns ==
    \A c \in Calls :
        (/\ bg_ok[c]
         /\ TaskDone(c) /\ pc[c] # "cancelled"
         /\ \A d \in Calls \ {c} : req[d].task_id # req[c].task_id)
        => /\ Count(c, {"mc_task_started"}, AnyArg) = 1
           /\ Count(c, {"mc_task_completed"}, AnyArg) = 1

\* The task-scoped events of call c, in the order of their publication
C10_TaskEvents(c) ==
    Filter(effects[c], {"mc_task_started", "mc_task_output", "mc_task_completed"}, AnyArg)

\* A chunk for which lines 206-242 publish an mc_task_output event
C10_Produces(chunk) ==
    \/ chunk.type = "message" /\ chunk.content # <<>>
    \/ chunk.type \in {"tool_use", "tool_result"}

(* C10: the task events of a session are mc_task_started first, then the   *)
(* mc_task_output events of the chunks that produce one, in the order of   *)
(* the chunks and without a gap, then mc_task_completed last; a session    *)
(* that has returned has published both, and unless it was stopped one     *)
(* output for every producing chunk.                                       *)
C10_EventOrder ==
    \A c \in Calls :
        LET ev == C10_TaskEvents(c)
            prod == SelectSeq(hist[c], C10_Produces)
        IN  /\ ~admitted[c] => ev = <<>>
            /\ \A i \in 1..Len(ev) :
                  /\ ev[i].op = "mc_task_started" <=> i = 1
                  /\ ev[i].op = "mc_task_completed" => (i = Len(ev) /\ i > 1)
                  /\ ev[i].op = "mc_task_output" =>
                        /\ i - 1 <= Len(prod)
                        /\ ev[i].arg = prod[i - 1].type
                        /\ prod[i - 1].type = "message" =>
                              ev[i].text = Some(prod[i - 1].content)
            /\ (admitted[c] /\ pc[c] = "done") =>
                  /\ Len(ev) >= 2
                  /\ ev[Len(ev)].op = "mc_task_completed"
                  /\ result[c].status # "stopped" => Len(ev) = Len(prod) + 2

\* A session has returned after publishing the outputs of three chunks.
C10_Witness ==
    \E c \in Calls :
        /\ admitted[c] /\ pc[c] = "done"
        /\ Count(c, {"mc_task_output"}, AnyArg) >= 3

(* C11: a task id is in the running registry only while a request for it   *)
(* is on its way: once every execution request made for the task has      *)
(* ended (returned, was rejected or was cancelled), is_task_running of the *)
(* task is False and the task is not in get_running_tasks.                 *)
C11_RegistryOnlyWhileExecuting ==
    \A t \in TaskIds :
        (is_task_running(t) \/ t \in get_running_tasks) =>
            \E c \in Calls : req[c].task_id = t /\ ~TaskDone(c)

(* C12: while an admitted session that has written its first status has    *)
(* not reached its finally block, is_task_running of its task is True.     *)
C12_RunningWhileSessionActive ==
    \A c \in Calls :
        (/\ admitted[c]
         /\ effects[c] # <<>>
         /\ pc[c] \in BeforeFinally)
        => is_task_running(req[c].task_id)

\* The task status that the outcome of a session is persisted as
C13_Persisted(outcome) ==
    CASE outcome = "completed" -> "DONE"
      [] outcome \in {"error", "stopped"} -> "BLOCKED"

(* C13: the finalization of a session persists the task as DONE when the   *)
(* outcome is completed and as BLOCKED when it is error or stopped, sets   *)
(* the agent IDLE with no active task, and the status of the               *)
(* mc_task_completed event it published is the status of the result that   *)
(* execute_task returns.                                                   *)
C13_FinalStatusesMatchOutcome ==
    [][\A c \in Calls :
          /\ (pc[c] = "fin_task_status" /\ pc'[c] = "fin_agent_status") =>
                task_status'[req[c].task_id] = C13_Persisted(final_status[c])
          /\ (pc[c] = "fin_agent_status" /\ pc'[c] = "bcast_completed") =>
                /\ agent_status'[req[c].agent_id] = "IDLE"
                /\ agent_task'[req[c].agent_id] = None
          /\ (pc[c] # "done" /\ pc'[c] = "done") =>
                /\ result'[c].status \in Outcomes
                /\ \E i \in 1..Len(effects'[c]) :
                      /\ effects'[c][i].op = "mc_task_completed"
                      /\ effects'[c][i].arg = result'[c].status
                /\ \E i \in 1..Len(effects'[c]) :
                      /\ effects'[c][i].op = "update_task_status"
                      /\ effects'[c][i].arg = C13_Persisted(result'[c].status)
                /\ \E i \in 1..Len(effects'[c]) :
                      /\ effects'[c][i].op = "set_agent_status"
                      /\ effects'[c][i].arg = "IDLE"
      ]_vars

\* A session has returned with status error, its task is BLOCKED and its
\* agent IDLE.
C13_Witness ==
    \E c \in Calls :
        /\ pc[c] = "done" /\ result[c].status = "error"
        /\ task_status[req[c].task_id] = "BLOCKED"
        /\ agent_status[req[c].agent_id] = "IDLE"
        /\ agent_task[req[c].agent_id] = None

(* C14: a stop_task call that returns False was made for a task that is    *)
(* not registered and of which no execution is in progress, and it has     *)
(* changed nothing: registry, stop flags, routers, persisted statuses and  *)
(* published events are as before.                                         *)
C14_StopFalseOnlyWhenIdle ==
    [][\A s \in Stops :
          (spc[s] # "returned" /\ spc'[s] = "returned" /\ sret'[s] = "False") =>
              /\ ~is_task_running(stask'[s])
              /\ \A c \in Calls : req[c].task_id = stask'[s] => ~InProgress(c)
              /\ UNCHANGED <<executor, store, effects>>
      ]_vars

\* The contents, joined in order, of the non-empty message chunks among
\* chunks
RECURSIVE C15_Messages(_)
C15_Messages(chunks) ==
    IF chunks = <<>> THEN <<>>
    ELSE (IF Head(chunks).type = "message" THEN Head(chunks).content ELSE <<>>)
             \o C15_Messages(Tail(chunks))

\* The chunks the loop of call c has processed: all it has pulled, but for
\* the one at which it observed the stop flag
C15_Processed(c) ==
    IF final_status[c] = "stopped"
    THEN SubSeq(hist[c], 1, Len(hist[c]) - 1)
    ELSE hist[c]

(* C15: the output that execute_task returns, and the content of the       *)
(* deliverable document when one is saved, is the concatenation in order   *)
(* of the contents of the message chunks processed before the loop ended;  *)
(* tool chunks, the chunk that ended the loop and the chunk at which the   *)
(* stop flag was observed add nothing.                                     *)
C15_OutputIsMessagesInOrder ==
    \A c \in Calls :
        /\ (admitted[c] /\ pc[c] = "done") =>
              result[c].output = Some(C15_Messages(C15_Processed(c)))
        /\ \A i \in 1..Len(effects[c]) :
              effects[c][i].op = "save_document" =>
                  effects[c][i].text = Some(C15_Messages(C15_Processed(c)))

\* A session whose backend yielded message a, message b and done has
\* returned the output ab and saved it.
C15_Witness ==
    \E c \in Calls :
        /\ pc[c] = "done"
        /\ Len(hist[c]) = 3 /\ hist[c][3].type = "done"
        /\ result[c].output = Some(<<"a", "b">>)
        /\ \E i \in 1..Len(effects[c]) :
              /\ effects[c][i].op = "save_document"
              /\ effects[c][i].text = Some(<<"a", "b">>)

(* C16: when the pull of a chunk or the processing of a chunk raises an    *)
(* exception, the except clause catches it, the session takes the outcome  *)
(* error, runs its finalization and execute_task returns a result of       *)
(* status error: the exception does not leave execute_task.                *)
C16_LoopFaultIsCaught ==
    \A c \in Calls :
        /\ (hist[c] # <<>> /\ hist[c][Len(hist[c])].type = "raise") => caught[c]
        /\ caught[c] =>
            /\ final_status[c] = "error"
            /\ pc[c] \in InFinally \cup {"done"}
            /\ pc[c] = "done" =>
                  /\ result[c].status = "error"
                  /\ Count(c, {"mc_task_completed"}, {"error"}) = 1
                  /\ Count(c, {"update_task_status"}, {"BLOCKED"}) = 1
                  /\ Count(c, {"set_agent_status"}, {"IDLE"}) = 1
                  /\ Count(c, {"activity"}, {"error"}) = 1

\* A session whose second pull raised has returned, and so has a session
\* whose publication of a chunk raised.
C16_Witness ==
    /\ \E c \in Calls :
        /\ pc[c] = "done"
        /\ Len(hist[c]) = 2 /\ hist[c][2].type = "raise"
        /\ result[c].status = "error"
    /\ \E c \in Calls :
        /\ pc[c] = "done" /\ caught[c]
        /\ hist[c][Len(hist[c])].type \in {"message", "tool_use", "tool_result"}
        /\ result[c].status = "error"

(* C17: the admission checks are made in a fixed order and the first that  *)
(* fails decides the result: with valid ids, a registry at capacity gives  *)
(* the capacity error whether or not the task exists; then an unknown task *)
(* gives 'Task not found' whether or not the task is registered; then an   *)
(* unknown agent gives 'Agent not found'; and only then a registered task  *)
(* gives 'Task is already running'.                                        *)
C17_AdmissionOrder ==
    [][\A c \in Calls :
          LET r == req'[c]
              registered == {t \in TaskIds : _running_tasks[t] # Nil}
          IN  /\ (/\ pc[c] \in {"idle", "scheduled"}
                  /\ pc'[c] \in {"get_task", "rejected"}
                  /\ _is_valid_uuid(IdText(r.task_id))
                  /\ _is_valid_uuid(IdText(r.agent_id))) =>
                    IF Cardinality(registered) >= 5
                    THEN /\ pc'[c] = "rejected"
                         /\ result'[c].rejection =
                               "Maximum concurrent tasks (5) reached. Please wait."
                    ELSE pc'[c] = "get_task"
              /\ (pc[c] = "get_task" /\ pc'[c] \notin {"get_task", "cancelled"}) =>
                    IF r.task_id \notin StoreTasks
                    THEN /\ pc'[c] = "rejected"
                         /\ result'[c].rejection = "Task not found"
                    ELSE pc'[c] = "get_agent"
              /\ (pc[c] = "get_agent" /\ pc'[c] \notin {"get_agent", "cancelled"}) =>
                    IF r.agent_id \notin StoreAgents
                    THEN /\ pc'[c] = "rejected"
                         /\ result'[c].rejection = "Agent not found"
                    ELSE IF r.task_id \in registered
                    THEN /\ pc'[c] = "rejected"
                         /\ result'[c].rejection = "Task is already running"
                    ELSE pc'[c] = "update_task_status"
      ]_vars

\* A request for an unknown task was refused for capacity, and a request for
\* an unknown task that is registered was refused as not found.
C17_Witness ==
    \E c, d \in Calls :
        /\ pc[c] = "rejected" /\ req[c].task_id \notin StoreTasks
        /\ result[c].rejection = "Maximum concurrent tasks (5) reached. Please wait."
        /\ pc[d] = "rejected" /\ is_task_running(req[d].task_id)
        /\ result[d].rejection = "Task not found"

(* C18: when saving the deliverable document fails, the failure stays      *)
(* inside: the task is still DONE and the agent IDLE as finalization wrote *)
(* them, the published mc_task_completed event reports completed, and      *)
(* execute_task still returns its result of status completed.              *)
C18_SaveFailureContained ==
    [][\A c \in Calls :
          (pc[c] = "save_document" /\ pc'[c] \notin {"save_document", "log_deliverable"}) =>
              /\ UNCHANGED <<store, effects>>
              /\ Count(c, {"mc_task_completed"}, {"completed"}) = 1
              /\ Count(c, {"update_task_status"}, {"DONE"}) = 1
              /\ Count(c, {"set_agent_status"}, {"IDLE"}) = 1
              /\ pc'[c] = "done"
              /\ result'[c].status = "completed"
      ]_vars

\* The chunks call c had pulled when stop_task set the flag of its task
C19_Before(c) == SubSeq(hist[c], 1, flagged_at[c] - 1)

(* C19: once stop_task has set the stop flag of a session's task, no chunk *)
(* that the session pulls afterwards is processed: the accumulated output  *)
(* holds only messages pulled before, and every mc_task_output event is    *)
(* for a chunk pulled before.                                              *)
C19_NothingAfterStopFlag ==
    \A c \in Calls :
        flagged_at[c] > 0 =>
            /\ Len(output_chunks[c]) <=
                  Len(SelectSeq(C19_Before(c),
                                LAMBDA x : x.type = "message" /\ x.content # <<>>))
            /\ Count(c, {"mc_task_output"}, AnyArg) <=
                  Len(SelectSeq(C19_Before(c), C10_Produces))

(* C20: the stop flag is monotonic: once it is set for a task, it stays    *)
(* set as long as a session of that task that was consuming chunks has not *)
(* reached its own finalization.                                           *)
C20_StopFlagStaysSet ==
    [][\A c \in Calls :
          (/\ pc[c] \in BeforeFinally
           /\ pc'[c] \in BeforeFinally
           /\ _stop_flags[req[c].task_id] = "True")
          => _stop_flags'[req[c].task_id] = "True"
      ]_vars

\* A step leaves alone everything held for the task ids other than t: their
\* registry entries, stop flags, routers and persisted statuses, and the
\* output, outcome and result of the calls made for them.
C21_OthersUntouched(t) ==
    /\ \A u \in TaskIds \ {t} :
          /\ _running_tasks'[u] = _running_tasks[u]
          /\ _stop_flags'[u] = _stop_flags[u]
          /\ _agent_routers'[u] = _agent_routers[u]
          /\ u \in StoreTasks => task_status'[u] = task_status[u]
    /\ \A d \in Calls :
          (req[d] # NoRequest /\ req[d].task_id # t) =>
              /\ output_chunks'[d] = output_chunks[d]
              /\ final_status'[d] = final_status[d]
              /\ result'[d] = result[d]

(* C21: sessions of different task ids are isolated: a step of a call made *)
(* for a task (its error chunk, its fault, its finalization among them)    *)
(* and a step of stop_task for a task change nothing that is held for      *)
(* another task id.                                                        *)
C21_TasksIsolated ==
    [][/\ \A c \in Calls : pc'[c] # pc[c] => C21_OthersUntouched(req'[c].task_id)
       /\ \A s \in Stops : spc'[s] # spc[s] => C21_OthersUntouched(stask'[s])
      ]_vars

\* A session of t1 has ended in error and stop_task ran for t1, while the
\* session of t2 returned completed with its output and t2 is DONE.
C21_Witness ==
    \E c, d \in Calls :
        /\ req[c].task_id = "t1" /\ pc[c] = "done" /\ result[c].status = "error"
        /\ req[d].task_id = "t2" /\ pc[d] = "done"
        /\ result[d].status = "completed" /\ result[d].output = Some(<<"a">>)
        /\ task_status["t2"] = "DONE"
        /\ \E s \in Stops : spc[s] = "returned" /\ stask[s] = "t1"

\* The four steps that open a session, in their order
C22_Opening ==
    << Effect("update_task_status", "IN_PROGRESS", NoText),
       Effect("set_agent_status", "ACTIVE", NoText),
       Effect("mc_task_started", None, NoText),
       Effect("activity", "started", NoText) >>

(* C22: what a session writes begins with the task set IN_PROGRESS, the    *)
(* agent set ACTIVE, the mc_task_started event and the start activity, in  *)
(* that order, and a session that asks for its first chunk, or has pulled  *)
(* one, has made all four.                                                 *)
C22_OpeningBeforeFirstChunk ==
    \A c \in Calls :
        /\ \A i \in 1..Len(effects[c]) :
              i <= Len(C22_Opening) => effects[c][i] = C22_Opening[i]
        /\ (pc[c] \in InTry \/ hist[c] # <<>>) => Len(effects[c]) >= Len(C22_Opening)

\* A session has made its four opening steps, published the event of its
\* start activity, and waits for its first chunk.
C22_Witness ==
    \E c \in Calls :
        /\ admitted[c] /\ pc[c] = "pull" /\ hist[c] = <<>>
        /\ SubSeq(effects[c], 1, Len(C22_Opening)) = C22_Opening

(* C23: while a session consumes chunks, its agent is persisted ACTIVE and *)
(* its task IN_PROGRESS, also when the same agent executes another task    *)
(* whose session finalizes first.  Stated for a session whose task no      *)
(* other request names.                                                    *)
C23_ActiveWhileConsuming ==
    \A c \in Calls :
        (/\ pc[c] \in InTry
         /\ \A d \in Calls \ {c} : req[d].task_id # req[c].task_id)
        => /\ agent_status[req[c].agent_id] = "ACTIVE"
           /\ task_status[req[c].task_id] = "IN_PROGRESS"

(* C24: a session whose chunk sequence ended without a done or error       *)
(* chunk, without a fault and without a stop request has the outcome       *)
(* completed: it returns completed, the task is written DONE, and a        *)
(* deliverable is saved exactly when the output is not blank.              *)
C24_EndOfStreamCompletes ==
    \A c \in Calls :
        (/\ hist[c] # <<>> /\ hist[c][Len(hist[c])].type = "end"
         /\ ~stop_seen[c] /\ flagged_at[c] = 0)
        => /\ final_status[c] = "completed"
           /\ pc[c] \in InFinally \cup {"done"}
           /\ pc[c] = "done" =>
                 /\ result[c].status = "completed"
                 /\ Count(c, {"update_task_status"}, {"DONE"}) = 1
                 /\ Count(c, {"update_task_status"}, {"BLOCKED"}) = 0
                 /\ Count(c, {"save_document"}, AnyArg) =
                       (IF \E j \in 1..Len(result[c].output[1]) :
                              result[c].output[1][j] \notin WhiteSpace
                        THEN 1 ELSE 0)

\* Two sessions have returned after their chunk sequences ended: one with
\* blank output and no document, one with its output saved.
C24_Witness ==
    \E c, d \in Calls :
        /\ pc[c] = "done" /\ hist[c][Len(hist[c])].type = "end"
        /\ ~stop_seen[c] /\ flagged_at[c] = 0
        /\ Len(output_chunks[c]) = 2
        /\ Count(c, {"save_document"}, AnyArg) = 0
        /\ pc[d] = "done" /\ hist[d][Len(hist[d])].type = "end"
        /\ Count(d, {"save_document"}, AnyArg) = 1

(* C25: the running registry never holds more than MAX_CONCURRENT_TASKS    *)
(* task ids.                                                               *)
C25_RegistryWithinCapacity ==
    Cardinality(get_running_tasks) <= MAX_CONCURRENT_TASKS

=============================================================================
